---- MODULE Spec2Model ----
(***************************************************************************)
(* Model of bpm_master.py: main, process_folder (discovery, worker pool,   *)
(* drain loop, updater thread, final summary), _process_single_file_task,  *)
(* detect_bpm and stretch_audio.                                           *)
(*                                                                         *)
(* Floats are modelled as exact rationals n/d plus the IEEE specials nan,  *)
(* +inf and -inf; a doubling whose magnitude exceeds MaxFloat overflows to *)
(* the infinity of its sign, as IEEE doubles do.                           *)
(* The collaborators (essentia, pyrubberband, pydub, the manager process,  *)
(* the file system) are the environment: what they yield for a file is     *)
(* chosen the first time the job of the file asks, and is then fixed for   *)
(* the file (env), so that a file has one detection and one stretch result.*)
(*                                                                         *)
(* Spec is the batch on a machine that forks its worker processes and      *)
(* whose user lets it run; SpecPools runs the same batch twice, on one and *)
(* on several workers; SpecEnv adds the spawn start method and Ctrl-C      *)
(* during the drain loop; SpecBusy is a batch of more files than workers.  *)
(***************************************************************************)
EXTENDS Integers, Sequences, FiniteSets, TLC

\* ------------------------------------------------------------------ bounds
MaxFiles == 2      \* at most this many audio files under the input folder
MaxCores == 2      \* multiprocessing.cpu_count() is in 1..MaxCores
MaxFloat == 400    \* largest finite magnitude of the float model

\* ------------------------------------------------------- program constants
OctaveFloor == 100 \* while bpm < 100

\* ------------------------------------------------------------------ floats
Num(n, d) == [k |-> "num", n |-> n, d |-> d]
NaN       == [k |-> "nan", n |-> 0, d |-> 1]
PosInf    == [k |-> "inf", n |-> 1, d |-> 1]
NegInf    == [k |-> "inf", n |-> -1, d |-> 1]
None      == [k |-> "None", n |-> 0, d |-> 1]
Raised    == [k |-> "raise", n |-> 0, d |-> 1]
Unset     == [k |-> "unset", n |-> 0, d |-> 1]

\* x < c for a float x and an integer c (any comparison with nan is False)
FLt(x, c) ==
    CASE x.k = "nan" -> FALSE
      [] x.k = "inf" -> x.n < 0
      [] OTHER       -> x.n < c * x.d

\* x <= 0
FLe0(x) ==
    CASE x.k = "nan" -> FALSE
      [] x.k = "inf" -> x.n < 0
      [] OTHER       -> x.n <= 0

\* x > 0
FGt0(x) ==
    CASE x.k = "nan" -> FALSE
      [] x.k = "inf" -> x.n > 0
      [] OTHER       -> x.n > 0

Abs(i) == IF i < 0 THEN -i ELSE i

\* bpm *= 2
FDouble(x) ==
    CASE x.k = "nan" -> NaN
      [] x.k = "inf" -> x
      [] OTHER ->
           LET y == IF x.d % 2 = 0 THEN Num(x.n, x.d \div 2) ELSE Num(2 * x.n, x.d)
           IN  IF Abs(y.n) > MaxFloat * y.d
               THEN (IF y.n < 0 THEN NegInf ELSE PosInf)
               ELSE y

\* round(bpm) followed by float(...): round half to even; round(nan) raises
\* ValueError and round(inf) raises OverflowError
FRound(x) ==
    CASE x.k = "nan" -> Raised
      [] x.k = "inf" -> Raised
      [] OTHER ->
           LET q == x.n \div x.d
               r == x.n % x.d
           IN  IF 2 * r < x.d THEN Num(q, 1)
               ELSE IF 2 * r > x.d THEN Num(q + 1, 1)
               ELSE IF q % 2 = 0 THEN Num(q, 1) ELSE Num(q + 1, 1)

\* target_bpm / detected_bpm
FDiv(t, x) ==
    CASE t.k = "nan" \/ x.k = "nan"     -> NaN
      [] t.k = "inf" /\ x.k = "inf"     -> NaN
      [] x.k = "inf"                    -> Num(0, 1)
      [] x.n = 0                        -> Raised
      [] t.k = "inf"                    -> IF (t.n < 0) = (x.n < 0) THEN PosInf ELSE NegInf
      [] OTHER ->
           IF x.n > 0 THEN Num(t.n * x.d, t.d * x.n)
                      ELSE Num(-(t.n * x.d), t.d * (-x.n))

IsFinite(x) == x.k = "num"

\* ------------------------------------------------------------- environment
\* values of --target-bpm that argparse's type=float accepts
TargetBpms == {Num(-5, 1), Num(0, 1), NegInf, Num(130, 1), NaN}

\* what es.MonoLoader(...)() / es.PercivalBpmEstimator()(audio) yield for a file:
\* an exception, or a float
Estimates == {Raised, NaN, Num(0, 1), Num(-150, 1), Num(241, 4)}

\* what stretch_audio does for a file: completes, raises before the output file
\* is opened (AudioLoader, time_stretch), or raises during the export
StretchResults == {"ok", "fail_load", "fail_export"}

\* the files the input folder may hold: a batch discovers up to MaxFiles of them,
\* and one more where a batch has to be larger than the pool
Files == 1..(MaxFiles + 1)

\* multiprocessing start methods: fork (Linux), spawn (Windows, macOS)
StartMethods == {"fork", "spawn"}

\* path of the i-th discovered file relative to the input folder: <<dir, name>>
RelativePath(i) == <<IF i = 3 THEN "." ELSE "sub", IF i = 3 THEN 1 ELSE i>>

OutPaths == {RelativePath(i) : i \in Files}

UnsetEnv == [est |-> Unset, slot |-> "unset", mkdir |-> "unset", stretch |-> "unset"]

\* ------------------------------------------------------------------- state
VARIABLES
    pc,              \* position of the main process; "fatal": sys.exit(1) in main,
                     \* "exit": main returned or an exception ended the process
    exit_code,       \* exit status of the process, -1 while it runs
    input_is_dir,    \* input_folder_path.is_dir()
    target_bpm,      \* args.target_bpm
    analyze_only,    \* args.analyze_only
    found,           \* number of supported audio files under the input folder
    num_cores,       \* multiprocessing.cpu_count()
    start_method,    \* how multiprocessing starts the child processes
    interrupted,     \* the user pressed Ctrl-C while the drain loop ran
    audio_files,     \* list built by the discovery
    out_dirs,        \* directories that exist under (and including) the output root
    out_files,       \* output path -> "absent" | "partial" | "complete"
    processed_count, modified_count, failed_count, log_messages,
    manager,         \* "none" | "up" | "down"
    status_dict,     \* worker_id -> status text
    tasks_args,      \* the task tuples
    stop_event,
    upc,             \* position of the updater thread
    pool,            \* "none" | "running" | "terminated"
    taskq,           \* indices of tasks_args not yet taken by a worker
    outq,            \* results sent back by the workers, not yet yielded
    it_index,        \* results yielded so far by the imap_unordered iterator
    wpc, wtask,      \* per pool worker: position, index of the task it runs (0: none)
    wbpm, wfactor,   \* per pool worker: locals bpm / detected_bpm and factor
    env,             \* per file: what the collaborators yield for it
    errlog,          \* the lines of errors.log
    started,         \* per file: how many times a worker started its task
    stretch_calls,   \* the calls of stretch_audio made so far, [file, factor]
    summary,         \* the summary panel printed, <<>> before
    ref              \* what an earlier run of the same batch on one worker yielded

vars == <<pc, exit_code, input_is_dir, target_bpm, analyze_only, found, num_cores,
          start_method, interrupted,
          audio_files, out_dirs, out_files, processed_count, modified_count,
          failed_count, log_messages, manager, status_dict, tasks_args, stop_event,
          upc, pool, taskq, outq, it_index, wpc, wtask, wbpm, wfactor, env, errlog,
          started, stretch_calls, summary, ref>>

mainVars   == <<pc, exit_code, audio_files, processed_count, modified_count,
                failed_count, log_messages, manager, tasks_args, stop_event, pool,
                it_index, summary>>
argVars    == <<input_is_dir, target_bpm, analyze_only, found, num_cores,
                start_method, interrupted, ref>>
fsVars     == <<out_dirs, out_files>>
workerVars == <<taskq, outq, wpc, wtask, wbpm, wfactor, env, errlog, started,
                stretch_calls>>

Workers == 1..num_cores
Idle    == [a |-> "Idle", f |-> 0]
NoRef   == [run |-> FALSE, outcomes |-> {}, counters |-> <<>>, summary |-> <<>>]

\* the process once the module is imported and main is about to run, on a
\* command line and an input folder that the environment chose
Started ==
    /\ pc = "main"
    /\ exit_code = -1
    /\ input_is_dir \in BOOLEAN
    /\ target_bpm \in TargetBpms
    /\ analyze_only \in BOOLEAN
    /\ interrupted = FALSE
    /\ audio_files = <<>>
    /\ out_dirs = {}
    /\ out_files = [p \in OutPaths |-> "absent"]
    /\ processed_count = 0 /\ modified_count = 0 /\ failed_count = 0
    /\ log_messages = <<>>
    /\ manager = "none"
    /\ status_dict = <<>>
    /\ tasks_args = <<>>
    /\ stop_event = FALSE
    /\ upc = "none"
    /\ pool = "none"
    /\ taskq = <<>> /\ outq = <<>> /\ it_index = 0
    /\ wpc = <<>> /\ wtask = <<>> /\ wbpm = <<>> /\ wfactor = <<>>
    /\ env = [f \in Files |-> UnsetEnv]
    /\ errlog = {}
    /\ started = [f \in Files |-> 0]
    /\ stretch_calls = {}
    /\ summary = <<>>
    /\ ref = NoRef

\* a batch of up to MaxFiles files on a machine of up to MaxCores cores, whose
\* worker processes are forked
Init ==
    /\ Started
    /\ found \in 0..MaxFiles
    /\ num_cores \in 1..MaxCores
    /\ start_method = "fork"

\* ---------------------------------------------------------- main process
\* lines 359-365: the input folder is a directory and the target bpm is not <= 0
\* (variant: only the input folder is checked)
PreconditionsPathOnly(is_dir, target) == is_dir
Preconditions(is_dir, target) == is_dir /\ ~FLe0(target)

\* main: the precondition checks, sys.exit(1) or the call of process_folder
MainChecks ==
    /\ pc = "main"
    /\ IF ~Preconditions(input_is_dir, target_bpm)
       THEN pc' = "fatal" /\ exit_code' = 1
       ELSE pc' = "discover" /\ UNCHANGED exit_code
    /\ UNCHANGED <<audio_files, processed_count, modified_count, failed_count,
                   log_messages, manager, tasks_args, stop_event, pool, it_index,
                   summary>>
    /\ UNCHANGED <<argVars, fsVars, workerVars, status_dict, upc>>

\* lines 221-222: if not analyze_only: output_path.mkdir(parents=True, exist_ok=True)
\* (variant: the output root is created whatever the mode)
OutputRootAlways(dirs, analyze) == dirs \cup {"."}
OutputRoot(dirs, analyze) == IF analyze THEN dirs ELSE dirs \cup {"."}

\* line 215: if not audio_files
\* (variant: the early return is never taken)
NeverEmpty(files) == FALSE
NoAudioFiles(files) == files = <<>>

\* process_folder up to the counters: discovery, early return, output root
Discover ==
    /\ pc = "discover"
    /\ audio_files' = [i \in 1..found |-> i]
    /\ IF NoAudioFiles([i \in 1..found |-> i])
       THEN /\ pc' = "exit" /\ exit_code' = 0
            /\ UNCHANGED out_dirs
       ELSE /\ pc' = "setup" /\ UNCHANGED exit_code
            /\ out_dirs' = OutputRoot(out_dirs, analyze_only)
    /\ processed_count' = 0 /\ modified_count' = 0 /\ failed_count' = 0
    /\ log_messages' = <<>>
    /\ UNCHANGED <<manager, tasks_args, stop_event, pool, it_index, summary>>
    /\ UNCHANGED <<argVars, out_files, workerVars, status_dict, upc>>

\* tasks_args = [(file, ..., i % num_cores, status_dict) for i, file in enumerate(..)]
\* (variant: one task tuple per core, `for i in range(num_cores)`)
TasksArgsOnePerCore(files, cores) ==
    [i \in 1..(IF Len(files) < cores THEN Len(files) ELSE cores) |->
        [file |-> files[i], worker_id |-> (i - 1) % cores]]
TasksArgs(files, cores) ==
    [i \in 1..Len(files) |-> [file |-> files[i], worker_id |-> (i - 1) % cores]]

\* the manager, the status slots, the task tuples and the updater thread
Setup ==
    /\ pc = "setup"
    /\ manager' = "up"
    /\ status_dict' = [i \in 0..(num_cores - 1) |-> Idle]
    /\ tasks_args' = TasksArgs(audio_files, num_cores)
    /\ stop_event' = FALSE
    /\ upc' = "running"
    /\ pc' = "pool"
    /\ UNCHANGED <<exit_code, audio_files, processed_count, modified_count,
                   failed_count, log_messages, pool, it_index, summary>>
    /\ UNCHANGED <<argVars, fsVars, workerVars>>

\* multiprocessing.Pool(processes=num_cores) and pool.imap_unordered(...)
PoolStart ==
    /\ pc = "pool"
    /\ pool' = "running"
    /\ wpc' = [w \in Workers |-> IF start_method = "spawn" THEN "boot" ELSE "idle"]
    /\ wtask' = [w \in Workers |-> 0]
    /\ wbpm' = [w \in Workers |-> None]
    /\ wfactor' = [w \in Workers |-> None]
    /\ taskq' = [i \in 1..Len(tasks_args) |-> i]
    /\ outq' = <<>>
    /\ it_index' = 0
    /\ pc' = "drain"
    /\ UNCHANGED <<exit_code, audio_files, processed_count, modified_count,
                   failed_count, log_messages, manager, tasks_args, stop_event,
                   summary>>
    /\ UNCHANGED <<argVars, fsVars, env, errlog, started, stretch_calls,
                   status_dict, upc>>

\* ------------------------------------------------------------ pool workers
FileOf(w)  == tasks_args[wtask[w]].file
SlotOf(w)  == tasks_args[wtask[w]].worker_id
Line(f, where) == [file |-> f, site |-> where]
Result(ok, f, code, bpm) == [exc |-> FALSE, ok |-> ok, file |-> f, code |-> code, bpm |-> bpm]
Exception(f) == [exc |-> TRUE, ok |-> FALSE, file |-> f, code |-> "EXCEPTION", bpm |-> None]

\* the values a collaborator may yield for a file: any, until it is fixed
Choices(fixed, unset, all) == IF fixed = unset THEN all ELSE {fixed}

\* status_dict[worker_id] = text succeeds unless the connection of the job to the
\* manager is broken, and then raises
SlotWritten(w, text) == [status_dict EXCEPT ![SlotOf(w)] = text]

\* the task returns res: the worker sends it back and is free again
Return(w, res) ==
    /\ outq' = Append(outq, res)
    /\ wpc' = [wpc EXCEPT ![w] = "idle"]
    /\ wtask' = [wtask EXCEPT ![w] = 0]
    /\ wbpm' = [wbpm EXCEPT ![w] = None]
    /\ wfactor' = [wfactor EXCEPT ![w] = None]

Goto(w, label) == wpc' = [wpc EXCEPT ![w] = label]

\* status_dict[worker_id] = "Idle"; return res -- or the write raises and control
\* goes to the handler at label
IdleAndReturn(w, res, handler) ==
    IF env[FileOf(w)].slot = "ok"
    THEN /\ status_dict' = SlotWritten(w, Idle)
         /\ Return(w, res)
    ELSE /\ Goto(w, handler)
         /\ UNCHANGED <<status_dict, outq, wtask, wbpm, wfactor>>

\* a free worker takes the next task of the task queue
\* (variant: the task taken stays in the queue)
TaskLeftInQueue(q) == q
TaskTaken(q) == Tail(q)
TakeTask(w) ==
    /\ w \in Workers /\ pool = "running" /\ wpc[w] = "idle" /\ taskq # <<>>
    /\ wtask' = [wtask EXCEPT ![w] = Head(taskq)]
    /\ taskq' = TaskTaken(taskq)
    /\ started' = [started EXCEPT ![tasks_args[Head(taskq)].file] = @ + 1]
    /\ Goto(w, "l167")
    /\ UNCHANGED <<outq, wbpm, wfactor, env, errlog, stretch_calls>>
    /\ UNCHANGED <<mainVars, argVars, fsVars, status_dict, upc>>

\* line 167: status_dict[worker_id] = "Detecting BPM for ..."
WriteDetecting(w) ==
    /\ w \in Workers /\ pool = "running" /\ wpc[w] = "l167"
    /\ \E s \in Choices(env[FileOf(w)].slot, "unset", {"ok", "broken"}) :
          /\ env' = [env EXCEPT ![FileOf(w)].slot = s]
          /\ IF s = "ok"
             THEN /\ status_dict' = SlotWritten(w, [a |-> "Detecting", f |-> FileOf(w)])
                  /\ Goto(w, "l106")
             ELSE /\ Goto(w, "l197")
                  /\ UNCHANGED status_dict
    /\ UNCHANGED <<taskq, outq, wtask, wbpm, wfactor, errlog, started, stretch_calls>>
    /\ UNCHANGED <<mainVars, argVars, fsVars, upc>>

\* detect_bpm, lines 106-110: load the audio and estimate the tempo
DetectLoad(w) ==
    /\ w \in Workers /\ pool = "running" /\ wpc[w] = "l106"
    /\ \E e \in Choices(env[FileOf(w)].est, Unset, Estimates) :
          /\ env' = [env EXCEPT ![FileOf(w)].est = e]
          /\ IF e = Raised
             THEN /\ errlog' = errlog \cup {Line(FileOf(w), "detect")}
                  /\ wbpm' = [wbpm EXCEPT ![w] = None]
                  /\ Goto(w, "l170")
             ELSE /\ wbpm' = [wbpm EXCEPT ![w] = e]
                  /\ Goto(w, "l115")
                  /\ UNCHANGED errlog
    /\ UNCHANGED <<taskq, outq, wtask, wfactor, started, stretch_calls>>
    /\ UNCHANGED <<mainVars, argVars, fsVars, status_dict, upc>>

\* detect_bpm, lines 115-116: while bpm < 100: bpm *= 2
DetectDouble(w) ==
    /\ w \in Workers /\ pool = "running" /\ wpc[w] = "l115"
    /\ FLt(wbpm[w], OctaveFloor)
    /\ wbpm' = [wbpm EXCEPT ![w] = FDouble(wbpm[w])]
    /\ UNCHANGED <<taskq, outq, wpc, wtask, wfactor, env, errlog, started, stretch_calls>>
    /\ UNCHANGED <<mainVars, argVars, fsVars, status_dict, upc>>

\* detect_bpm, lines 119-125: what it returns for the bpm the loop ends with
\* (variant: the bpm is returned as the loop left it, `return bpm`)
DetectResultUnrounded(bpm) == bpm
DetectResult(bpm) == IF FRound(bpm) = Raised THEN None ELSE FRound(bpm)
DetectReturn(w) ==
    /\ w \in Workers /\ pool = "running" /\ wpc[w] = "l115"
    /\ ~FLt(wbpm[w], OctaveFloor)
    /\ wbpm' = [wbpm EXCEPT ![w] = DetectResult(wbpm[w])]
    /\ errlog' = IF FRound(wbpm[w]) = Raised
                 THEN errlog \cup {Line(FileOf(w), "detect")} ELSE errlog
    /\ Goto(w, "l170")
    /\ UNCHANGED <<taskq, outq, wtask, wfactor, env, started, stretch_calls>>
    /\ UNCHANGED <<mainVars, argVars, fsVars, status_dict, upc>>

\* lines 170-180 and 191-194: the branch on detected_bpm
\* (variant: analyze_only is tested before `detected_bpm is None`)
BranchAnalyzeFirst(detected, analyze) ==
    IF analyze THEN "ANALYZE_ONLY"
    ELSE IF detected = None THEN "BPM_DETECTION_FAILED"
    ELSE IF FGt0(detected) THEN "STRETCH"
    ELSE "INVALID_BPM"
Branch(detected, analyze) ==
    IF detected = None THEN "BPM_DETECTION_FAILED"
    ELSE IF analyze THEN "ANALYZE_ONLY"
    ELSE IF FGt0(detected) THEN "STRETCH"
    ELSE "INVALID_BPM"
\* line 180: output_file_path.parent.mkdir(parents=True, exist_ok=True) on a
\* file system that lets the directory be created: an existing one is no error
\* (variant: exist_ok=False, an existing directory raises FileExistsError)
MkdirExclusive(dirs, d) == IF d \in dirs THEN "error" ELSE "ok"
Mkdir(dirs, d) == "ok"

Decide(w) ==
    /\ w \in Workers /\ pool = "running" /\ wpc[w] = "l170"
    /\ LET f == FileOf(w)
           b == Branch(wbpm[w], analyze_only)
       IN CASE b = "BPM_DETECTION_FAILED" ->
                 /\ IdleAndReturn(w, Result(FALSE, f, b, None), "l197")
                 /\ UNCHANGED <<env, errlog, fsVars>>
            [] b = "ANALYZE_ONLY" ->
                 /\ IdleAndReturn(w, Result(TRUE, f, b, wbpm[w]), "l197")
                 /\ UNCHANGED <<env, errlog, fsVars>>
            [] b = "STRETCH" ->
                 \* factor, relative_path, output_file_path.parent.mkdir(...)
                 \E m \in Choices(env[f].mkdir, "unset", {"ok", "error"}) :
                    /\ env' = [env EXCEPT ![f].mkdir = m]
                    /\ IF m = "ok" /\ Mkdir(out_dirs, RelativePath(f)[1]) = "ok"
                       THEN /\ out_dirs' = out_dirs \cup {".", RelativePath(f)[1]}
                            /\ wfactor' = [wfactor EXCEPT ![w] = FDiv(target_bpm, wbpm[w])]
                            /\ Goto(w, "l183")
                       ELSE /\ Goto(w, "l197")
                            /\ UNCHANGED <<out_dirs, wfactor>>
                    /\ UNCHANGED <<status_dict, outq, wtask, wbpm, errlog, out_files>>
            [] OTHER ->
                 /\ errlog' = errlog \cup {Line(f, "invalid")}
                 /\ IdleAndReturn(w, Result(FALSE, f, b, None), "l197")
                 /\ UNCHANGED <<env, fsVars>>
    /\ UNCHANGED <<taskq, started, stretch_calls>>
    /\ UNCHANGED <<mainVars, argVars, upc>>

\* line 183: status_dict[worker_id] = "Stretching ..."
WriteStretching(w) ==
    /\ w \in Workers /\ pool = "running" /\ wpc[w] = "l183"
    /\ IF env[FileOf(w)].slot = "ok"
       THEN /\ status_dict' = SlotWritten(w, [a |-> "Stretching", f |-> FileOf(w)])
            /\ Goto(w, "l184")
       ELSE /\ Goto(w, "l188")
            /\ UNCHANGED status_dict
    /\ UNCHANGED <<taskq, outq, wtask, wbpm, wfactor, env, errlog, started, stretch_calls>>
    /\ UNCHANGED <<mainVars, argVars, fsVars, upc>>

\* line 184, stretch_audio lines 132-156: load, stretch, build the segment and
\* open the output file for writing
StretchAudio(w) ==
    /\ w \in Workers /\ pool = "running" /\ wpc[w] = "l184"
    /\ stretch_calls' = stretch_calls \cup {[file |-> FileOf(w), factor |-> wfactor[w]]}
    /\ \E r \in Choices(env[FileOf(w)].stretch, "unset", StretchResults) :
          /\ env' = [env EXCEPT ![FileOf(w)].stretch = r]
          /\ IF r = "fail_load"
             THEN /\ Goto(w, "l188")
                  /\ UNCHANGED out_files
             ELSE /\ out_files' = [out_files EXCEPT ![RelativePath(FileOf(w))] = "partial"]
                  /\ Goto(w, "l156")
    /\ UNCHANGED <<taskq, outq, wtask, wbpm, wfactor, errlog, started>>
    /\ UNCHANGED <<mainVars, argVars, out_dirs, status_dict, upc>>

\* stretch_audio line 156: the export writes the file, or raises part-way
Export(w) ==
    /\ w \in Workers /\ pool = "running" /\ wpc[w] = "l156"
    /\ IF env[FileOf(w)].stretch = "ok"
       THEN /\ out_files' = [out_files EXCEPT ![RelativePath(FileOf(w))] = "complete"]
            /\ Goto(w, "l185")
       ELSE /\ Goto(w, "l188")
            /\ UNCHANGED out_files
    /\ UNCHANGED <<taskq, outq, wtask, wbpm, wfactor, env, errlog, started, stretch_calls>>
    /\ UNCHANGED <<mainVars, argVars, out_dirs, status_dict, upc>>

\* lines 185-186: status_dict[worker_id] = "Idle"; return (True, file, "PROCESSED")
ReturnProcessed(w) ==
    /\ w \in Workers /\ pool = "running" /\ wpc[w] = "l185"
    /\ IdleAndReturn(w, Result(TRUE, FileOf(w), "PROCESSED", None), "l188")
    /\ UNCHANGED <<taskq, env, errlog, started, stretch_calls>>
    /\ UNCHANGED <<mainVars, argVars, fsVars, upc>>

\* lines 187-190: the handler of the inner try
StretchFailed(w) ==
    /\ w \in Workers /\ pool = "running" /\ wpc[w] = "l188"
    /\ errlog' = errlog \cup {Line(FileOf(w), "stretch")}
    /\ IdleAndReturn(w, Result(FALSE, FileOf(w), "STRETCH_FAILED", None), "l197")
    /\ UNCHANGED <<taskq, env, started, stretch_calls>>
    /\ UNCHANGED <<mainVars, argVars, fsVars, upc>>

\* lines 196-199: the handler of the outer try; an exception raised in it leaves
\* the task, and the pool sends it back in place of a result
Unhandled(w) ==
    /\ w \in Workers /\ pool = "running" /\ wpc[w] = "l197"
    /\ errlog' = errlog \cup {Line(FileOf(w), "unhandled")}
    /\ IF env[FileOf(w)].slot = "ok"
       THEN /\ status_dict' = SlotWritten(w, Idle)
            /\ Return(w, Result(FALSE, FileOf(w), "UNHANDLED_ERROR", None))
       ELSE /\ Return(w, Exception(FileOf(w)))
            /\ UNCHANGED status_dict
    /\ UNCHANGED <<taskq, env, started, stretch_calls>>
    /\ UNCHANGED <<mainVars, argVars, fsVars, upc>>

\* --------------------------------------------------------- the drain loop
FailureCodes == {"BPM_DETECTION_FAILED", "STRETCH_FAILED", "INVALID_BPM", "UNHANDLED_ERROR"}

\* lines 276-292: the counters and the message for one result
\* (variant: modified_count counts every successful result)
ModifiedOnSuccess(r, n) == IF r.ok THEN n + 1 ELSE n
ModifiedAfter(r, n) == IF r.ok /\ r.code = "PROCESSED" THEN n + 1 ELSE n
FailedAfter(r, n)   == IF r.ok THEN n ELSE n + 1
ProcessedAfter(r, n) == n + 1
MessagesAfter(r, msgs) ==
    IF r.ok
    THEN IF r.code = "ANALYZE_ONLY" THEN Append(msgs, [tag |-> "INFO", file |-> r.file, code |-> r.code])
         ELSE IF r.code = "PROCESSED" THEN Append(msgs, [tag |-> "OK", file |-> r.file, code |-> r.code])
         ELSE msgs
    ELSE IF r.code \in FailureCodes THEN Append(msgs, [tag |-> "FAIL", file |-> r.file, code |-> r.code])
         ELSE msgs

\* one iteration of `for result in pool.imap_unordered(...)`: the next result is
\* yielded and aggregated; a task that raised makes the iterator raise instead,
\* which leaves the three `with` blocks (pool.terminate(), manager shutdown)
Consume ==
    /\ pc = "drain" /\ outq # <<>>
    /\ LET r == Head(outq)
       IN  IF r.exc
           THEN /\ pc' = "raised"
                /\ pool' = "terminated"
                /\ manager' = "down"
                /\ wpc' = [w \in Workers |-> "dead"]
                /\ taskq' = <<>>
                /\ outq' = <<>>
                /\ UNCHANGED <<it_index, processed_count, modified_count,
                               failed_count, log_messages>>
           ELSE /\ outq' = Tail(outq)
                /\ it_index' = it_index + 1
                /\ modified_count' = ModifiedAfter(r, modified_count)
                /\ failed_count' = FailedAfter(r, failed_count)
                /\ log_messages' = MessagesAfter(r, log_messages)
                /\ processed_count' = ProcessedAfter(r, processed_count)
                /\ UNCHANGED <<pc, pool, manager, wpc, taskq>>
    /\ UNCHANGED <<exit_code, audio_files, tasks_args, stop_event, summary>>
    /\ UNCHANGED <<argVars, fsVars, wtask, wbpm, wfactor, env, errlog, started,
                   stretch_calls, status_dict, upc>>

\* the iterator is exhausted when it has yielded len(tasks_args) results; the
\* `with` block of the pool is left (pool.terminate())
\* (variant: the iterator stops one result early)
ExhaustedEarly(index, tasks) == index + 1 >= Len(tasks)
Exhausted(index, tasks) == index = Len(tasks)
DrainDone ==
    /\ pc = "drain" /\ outq = <<>>
    /\ Exhausted(it_index, tasks_args)
    /\ pool' = "terminated"
    /\ wpc' = [w \in Workers |-> "dead"]
    /\ pc' = "stop"
    /\ UNCHANGED <<exit_code, audio_files, processed_count, modified_count,
                   failed_count, log_messages, manager, tasks_args, stop_event,
                   it_index, summary>>
    /\ UNCHANGED <<argVars, fsVars, taskq, outq, wtask, wbpm, wfactor, env, errlog,
                   started, stretch_calls, status_dict, upc>>

\* line 299: stop_event.set()
Stop ==
    /\ pc = "stop"
    /\ stop_event' = TRUE
    /\ pc' = "join"
    /\ UNCHANGED <<exit_code, audio_files, processed_count, modified_count,
                   failed_count, log_messages, manager, tasks_args, pool, it_index,
                   summary>>
    /\ UNCHANGED <<argVars, fsVars, workerVars, status_dict, upc>>

\* the updater thread is over: Thread.join() returns
\* (variant: join returns at once)
JoinNoWait(u) == TRUE
ThreadOver(u) == u \in {"exited", "crashed"}

\* line 300: updater_thread.join()
Join ==
    /\ pc = "join"
    /\ ThreadOver(upc)
    /\ pc' = "cleanup"
    /\ UNCHANGED <<exit_code, audio_files, processed_count, modified_count,
                   failed_count, log_messages, manager, tasks_args, stop_event, pool,
                   it_index, summary>>
    /\ UNCHANGED <<argVars, fsVars, workerVars, status_dict, upc>>

\* lines 303-305: every slot reads "Idle"; the manager's `with` block is left
Cleanup ==
    /\ pc = "cleanup"
    /\ status_dict' = [i \in DOMAIN status_dict |-> Idle]
    /\ manager' = "down"
    /\ pc' = "summary"
    /\ UNCHANGED <<exit_code, audio_files, processed_count, modified_count,
                   failed_count, log_messages, tasks_args, stop_event, pool,
                   it_index, summary>>
    /\ UNCHANGED <<argVars, fsVars, workerVars, upc>>

\* lines 308-314: the messages of the summary panel
SummaryMessages(processed, modified, failed, analyze) ==
    <<[m |-> "Total files processed", n |-> processed]>>
    \o (IF analyze THEN <<>> ELSE <<[m |-> "Files modified", n |-> modified]>>)
    \o <<[m |-> "Files failed", n |-> failed]>>
    \o (IF failed > 0 THEN <<[m |-> "See errors.log", n |-> 0]>> ELSE <<>>)

\* lines 307-322: the final summary; process_folder and main return
Summary ==
    /\ pc = "summary"
    /\ summary' = SummaryMessages(processed_count, modified_count, failed_count,
                                  analyze_only)
    /\ pc' = "exit"
    /\ exit_code' = 0
    /\ UNCHANGED <<audio_files, processed_count, modified_count, failed_count,
                   log_messages, manager, tasks_args, stop_event, pool, it_index>>
    /\ UNCHANGED <<argVars, fsVars, workerVars, status_dict, upc>>

\* the exception of a task left process_folder and main: the interpreter prints
\* the traceback and ends with status 1 once the (non-daemon) updater thread is over
Traceback ==
    /\ pc = "raised"
    /\ ThreadOver(upc)
    /\ pc' = "exit"
    /\ exit_code' = 1
    /\ UNCHANGED <<audio_files, processed_count, modified_count, failed_count,
                   log_messages, manager, tasks_args, stop_event, pool, it_index,
                   summary>>
    /\ UNCHANGED <<argVars, fsVars, workerVars, status_dict, upc>>

\* ------------------------------------------------------ the updater thread
\* lines 263-265, one iteration of the loop: leave it when stop_event is set, or
\* live.update(... get_status_panel() ...) and time.sleep(0.1); reading
\* status_dict raises once the manager is shut down, which ends the thread
Updater ==
    /\ upc = "running"
    /\ upc' = IF stop_event THEN "exited"
              ELSE IF manager = "up" THEN "running" ELSE "crashed"
    /\ UNCHANGED <<mainVars, argVars, fsVars, workerVars, status_dict>>

\* ------------------------------------------------------------ specification
MainStep ==
    \/ MainChecks \/ Discover \/ Setup \/ PoolStart \/ Consume \/ DrainDone
    \/ Stop \/ Join \/ Cleanup \/ Summary \/ Traceback

WorkerStep(w) ==
    \/ TakeTask(w) \/ WriteDetecting(w) \/ DetectLoad(w) \/ DetectDouble(w)
    \/ DetectReturn(w) \/ Decide(w) \/ WriteStretching(w) \/ StretchAudio(w)
    \/ Export(w) \/ ReturnProcessed(w) \/ StretchFailed(w) \/ Unhandled(w)

Next == MainStep \/ Updater \/ \E w \in 1..MaxCores : WorkerStep(w)

Spec == Init /\ [][Next]_vars

\* ---------------------------------------------- the same batch, run twice
\* the multiset of (file, outcome kind) pairs consumed by the drain loop
OutcomeBag ==
    [p \in {<<log_messages[i].file, log_messages[i].code>> : i \in DOMAIN log_messages} |->
        Cardinality({i \in DOMAIN log_messages :
                        <<log_messages[i].file, log_messages[i].code>> = p})]

\* a batch that ran on one worker and printed its summary is run again, on the
\* same input folder with the same arguments and a fresh output folder, on k > 1
\* workers; the collaborators yield for every file what they yielded before (env)
Rerun ==
    /\ pc = "exit" /\ summary # <<>> /\ ~ref.run
    /\ ref' = [run |-> TRUE, outcomes |-> OutcomeBag,
               counters |-> <<processed_count, modified_count, failed_count>>,
               summary |-> summary]
    /\ \E k \in 2..MaxCores : num_cores' = k
    /\ pc' = "main" /\ exit_code' = -1
    /\ audio_files' = <<>>
    /\ out_dirs' = {}
    /\ out_files' = [p \in OutPaths |-> "absent"]
    /\ processed_count' = 0 /\ modified_count' = 0 /\ failed_count' = 0
    /\ log_messages' = <<>>
    /\ manager' = "none" /\ status_dict' = <<>> /\ tasks_args' = <<>>
    /\ stop_event' = FALSE /\ upc' = "none" /\ pool' = "none"
    /\ taskq' = <<>> /\ outq' = <<>> /\ it_index' = 0
    /\ wpc' = <<>> /\ wtask' = <<>> /\ wbpm' = <<>> /\ wfactor' = <<>>
    /\ errlog' = {}
    /\ started' = [f \in Files |-> 0]
    /\ stretch_calls' = {}
    /\ summary' = <<>>
    /\ UNCHANGED <<input_is_dir, target_bpm, analyze_only, found, start_method,
                   interrupted, env>>

InitPools == Init /\ num_cores = 1
NextPools == Next \/ Rerun
SpecPools == InitPools /\ [][NextPools]_vars

\* fairness: the operating system schedules the main process, the updater thread
\* and every pool worker again and again
FairSpec ==
    /\ Spec
    /\ WF_vars(MainStep)
    /\ WF_vars(Updater)
    /\ \A w \in 1..MaxCores : WF_vars(WorkerStep(w))

\* ------------------------------------------------- the wider environment
\* lines 92-97 in a spawned child: the child imports the module again, and
\* logging.basicConfig(filename=LOG_FILE, filemode='w') opens errors.log anew
Truncated(log) == {}

\* a spawned pool worker starts: it imports the module, then waits for tasks
WorkerBoot(w) ==
    /\ w \in Workers /\ pool = "running" /\ wpc[w] = "boot"
    /\ errlog' = Truncated(errlog)
    /\ Goto(w, "idle")
    /\ UNCHANGED <<taskq, outq, wtask, wbpm, wfactor, env, started, stretch_calls>>
    /\ UNCHANGED <<mainVars, argVars, fsVars, status_dict, upc>>

\* Ctrl-C while the main process waits in `for result in pool.imap_unordered(...)`:
\* KeyboardInterrupt is raised there, nothing catches it, and it leaves the three
\* `with` blocks (pool.terminate(), manager shutdown) as any exception does
Interrupt ==
    /\ pc = "drain" /\ ~interrupted
    /\ interrupted' = TRUE
    /\ pc' = "raised"
    /\ pool' = "terminated"
    /\ manager' = "down"
    /\ wpc' = [w \in Workers |-> "dead"]
    /\ taskq' = <<>>
    /\ outq' = <<>>
    /\ UNCHANGED <<exit_code, audio_files, processed_count, modified_count,
                   failed_count, log_messages, tasks_args, stop_event, it_index,
                   summary>>
    /\ UNCHANGED <<input_is_dir, target_bpm, analyze_only, found, num_cores,
                   start_method, ref>>
    /\ UNCHANGED <<fsVars, wtask, wbpm, wfactor, env, errlog, started,
                   stretch_calls, status_dict, upc>>

\* the batch under either start method, with a user who may interrupt it
InitEnv ==
    /\ Started
    /\ found \in 0..MaxFiles
    /\ num_cores \in 1..MaxCores
    /\ start_method \in StartMethods
NextEnv == Next \/ Interrupt \/ \E w \in 1..MaxCores : WorkerBoot(w)
SpecEnv == InitEnv /\ [][NextEnv]_vars

\* a batch of more files than the pool has workers, on several cores
InitBusy ==
    /\ Started
    /\ found = MaxFiles + 1
    /\ num_cores \in 2..MaxCores
    /\ start_method = "fork"
SpecBusy == InitBusy /\ [][Next]_vars

\* ------------------------------------------------------------------ claims
\* the final summary is being rendered or has been rendered
SummaryTime == pc = "summary" \/ summary # <<>>

\* the outcomes the drain loop has consumed so far, as (file, code) messages
ConsumedFor(f) == {i \in DOMAIN log_messages : log_messages[i].file = f}
Discovered == 1..Len(audio_files)

\* the results of the tasks that returned: queued for the drain loop or consumed
Outcomes ==
    {[file |-> outq[i].file, code |-> outq[i].code, ok |-> outq[i].ok] :
        i \in {j \in DOMAIN outq : ~outq[j].exc}}
    \cup {[file |-> log_messages[i].file, code |-> log_messages[i].code,
           ok |-> log_messages[i].tag # "FAIL"] : i \in DOMAIN log_messages}

\* C1: the drain loop never consumes two outcomes for one file nor more than N
\* outcomes, and when the final summary is rendered it has consumed exactly one
\* outcome per discovered file and processed_count = len(audio_files).
C1_Completeness ==
    /\ \A f \in Files : Cardinality(ConsumedFor(f)) <= 1
    /\ processed_count <= Len(audio_files)
    /\ SummaryTime =>
          /\ processed_count = Len(audio_files)
          /\ \A f \in Discovered : Cardinality(ConsumedFor(f)) = 1

\* a batch of MaxFiles files on several workers whose outcomes arrived out of
\* submission order reached the summary
C1_Witness ==
    /\ summary # <<>> /\ num_cores > 1
    /\ Len(audio_files) = MaxFiles /\ processed_count = MaxFiles
    /\ log_messages[1].file = MaxFiles

\* C2: every discovered file is in exactly one task tuple, no task is started
\* twice or run by two workers at once, and when the summary is rendered every
\* discovered file has been started exactly once.
C2_NoDuplicateNoLostWork ==
    /\ \A f \in Files : started[f] <= 1
    /\ pool # "none" =>
          /\ Len(tasks_args) = Len(audio_files)
          /\ \A f \in Discovered :
                Cardinality({i \in DOMAIN tasks_args : tasks_args[i].file = f}) = 1
    /\ pool = "running" =>
          \A v, w \in Workers : (v # w /\ wtask[v] # 0) => wtask[v] # wtask[w]
    /\ SummaryTime => \A f \in Discovered : started[f] = 1

\* two workers run two different tasks at the same time
C2_Witness ==
    /\ pool = "running" /\ num_cores > 1
    /\ wtask[1] # 0 /\ wtask[2] # 0 /\ wtask[1] # wtask[2]

\* C3: no task raises: whatever fails in a job, the job returns an outcome and
\* the drain loop is not left by an exception.
C3_NoTaskRaises ==
    /\ \A i \in DOMAIN outq : ~outq[i].exc
    /\ pc # "raised"

\* worker w runs a job / has no job (it is free, or the pool is gone)
InJob(w)  == w \in Workers /\ pool = "running" /\ wpc[w] # "idle"
JobOver(w) == ~InJob(w)

\* C4: every job that a worker started is eventually over, and every batch that
\* entered the drain loop eventually ends.
C4_Termination ==
    /\ \A w \in 1..MaxCores : InJob(w) ~> JobOver(w)
    /\ (pc = "drain") ~> (pc = "exit")

\* C5: every call of stretch_audio has a factor that is finite and positive.
C5_FactorInvariant ==
    \A c \in stretch_calls : IsFinite(c.factor) /\ FGt0(c.factor)

\* C6: an outcome of a file whose detection failed (the loader or the estimator
\* raised) or whose estimated bpm is not > 0 is BPM_DETECTION_FAILED, in both
\* modes; such a file never has a successful outcome.
DetectionFailedFor(f) ==
    env[f].est # Unset /\ (env[f].est = Raised \/ ~FGt0(env[f].est))
C6_DetectionFailureClassified ==
    \A o \in Outcomes :
        DetectionFailedFor(o.file) => (o.code = "BPM_DETECTION_FAILED" /\ ~o.ok)

\* both a file whose detection raised and a file whose estimate is nan have been
\* consumed as BPM_DETECTION_FAILED, in analyze-only mode
C6_Witness ==
    /\ analyze_only /\ summary # <<>> /\ failed_count = 2
    /\ \E f, g \in Discovered :
          /\ env[f].est = Raised /\ env[g].est = NaN
          /\ \A i \in DOMAIN log_messages : log_messages[i].code = "BPM_DETECTION_FAILED"

\* C7 as stated: in analyze-only mode no directory is created under the output
\* root, stretch_audio is never called and no file is written, errors.log included.
NoOutputWritten ==
    /\ out_dirs = {}
    /\ stretch_calls = {}
    /\ \A p \in OutPaths : out_files[p] = "absent"
C8_AtomicOutput ==
    \A o \in Outcomes :
        o.code = "STRETCH_FAILED" => out_files[RelativePath(o.file)] = "absent"

\* C9: the counters agree with the outcomes consumed so far, are bounded by N,
\* never decrease, and modified_count stays 0 in analyze-only mode.
Count(codes) == Cardinality({i \in DOMAIN log_messages : log_messages[i].code \in codes})
CountersAgree ==
    /\ processed_count = Len(log_messages)
    /\ failed_count = Count(FailureCodes)
    /\ modified_count = Count({"PROCESSED"})
    /\ modified_count + failed_count <= processed_count
    /\ processed_count <= Len(audio_files)
    /\ analyze_only => modified_count = 0
C9_CounterAccounting ==
    /\ []CountersAgree
    /\ [][/\ processed_count' >= processed_count
          /\ failed_count' >= failed_count
          /\ modified_count' >= modified_count]_vars

\* a batch in normal mode consumed a processed file and a failed file
C9_Witness ==
    /\ ~analyze_only /\ summary # <<>>
    /\ processed_count = 2 /\ modified_count = 1 /\ failed_count = 1

\* C10: when the batch that ran on one worker is run on k > 1 workers and its
\* summary is rendered, the multiset of (file, outcome kind) pairs, the final
\* counters and the summary are those of the run on one worker.
C10_PoolSizeEquivalence ==
    (ref.run /\ SummaryTime) =>
        /\ OutcomeBag = ref.outcomes
        /\ <<processed_count, modified_count, failed_count>> = ref.counters
        /\ summary # <<>> => summary = ref.summary

\* the run on several workers consumed the outcomes in another order than the
\* run on one worker, one file processed and one failed
C10_Witness ==
    /\ ref.run /\ summary # <<>> /\ num_cores > 1
    /\ Len(log_messages) = MaxFiles /\ log_messages[1].file = MaxFiles
    /\ modified_count = 1 /\ failed_count >= 1

\* C11: every file whose outcome is a failure has a line naming it in errors.log
\* from the moment the outcome is returned until the batch ends: no line is lost
\* to a second truncation of the log, whichever way the workers are started.
LoggedFor(f) == \E l \in errlog : l.file = f
C11_ErrorLogComplete ==
    \A o \in Outcomes : ~o.ok => LoggedFor(o.file)

\* C12: a run whose input path is not a directory or whose target bpm is <= 0
\* never gets past the checks of main: nothing is discovered, no task is built,
\* no pool and no output directory exist, and it ends with exit status 1; a run
\* that ended in a fatal abort never scheduled a job.
NothingScheduled ==
    /\ audio_files = <<>> /\ tasks_args = <<>>
    /\ pool = "none" /\ manager = "none" /\ upc = "none"
    /\ out_dirs = {}
    /\ \A f \in Files : started[f] = 0
C12_FatalPreconditionsFirst ==
    /\ (~input_is_dir \/ FLe0(target_bpm)) =>
          /\ pc \in {"main", "fatal"}
          /\ NothingScheduled
    /\ pc = "fatal" => (exit_code = 1 /\ NothingScheduled)
    /\ pc = "exit" => (input_is_dir /\ ~FLe0(target_bpm))

\* the run on a folder of MaxFiles files with target bpm -5 ended in a fatal abort
C12_Witness ==
    /\ pc = "fatal" /\ exit_code = 1
    /\ input_is_dir /\ target_bpm = Num(-5, 1) /\ found = MaxFiles

\* C13: a run that finds no audio file never creates a directory, never starts
\* the manager, the updater thread or the pool, has no outcome, and once past
\* the discovery it has ended with exit status 0.
C13_EmptyInput ==
    found = 0 =>
        /\ pc \in {"main", "fatal", "discover", "exit"}
        /\ pc = "exit" => exit_code = 0
        /\ out_dirs = {}
        /\ manager = "none" /\ upc = "none" /\ pool = "none"
        /\ Outcomes = {} /\ processed_count = 0

\* the run in normal mode on an empty folder ended with exit status 0
C13_Witness ==
    /\ found = 0 /\ ~analyze_only /\ FGt0(target_bpm)
    /\ pc = "exit" /\ exit_code = 0

\* C14: a run that passed the checks of main and ended has rendered the final
\* summary with its counters, and a rendered summary has the pointer to
\* errors.log exactly when failed_count > 0.
LogPointer == [m |-> "See errors.log", n |-> 0]
C14_SummaryAlwaysPrinted ==
    /\ pc = "exit" =>
          summary = SummaryMessages(processed_count, modified_count, failed_count,
                                    analyze_only)
    /\ summary # <<>> =>
          ((\E i \in DOMAIN summary : summary[i] = LogPointer) <=> failed_count > 0)

\* C15: while the pool runs, two jobs in flight never publish to the same key of
\* status_dict, and the slot of a running job that has published its status
\* does not read "Idle".
Published(w) ==
    /\ wtask[w] # 0
    /\ wpc[w] # "l167"
    /\ env[FileOf(w)].slot = "ok"
C15_SingleWriterPerSlot ==
    pool = "running" =>
        /\ \A v, w \in Workers :
              (v # w /\ wtask[v] # 0 /\ wtask[w] # 0) => SlotOf(v) # SlotOf(w)
        /\ \A w \in Workers : Published(w) => status_dict[SlotOf(w)] # Idle

\* C16: when the final summary is rendered the pool is terminated and no worker
\* was running a job when it was, no task and no result is left in a queue,
\* every discovered file was started and its outcome consumed, every status
\* slot reads "Idle", stop_event is set and the updater thread has exited.
C16_PoolDrained ==
    SummaryTime =>
        /\ pool = "terminated"
        /\ \A w \in Workers : wtask[w] = 0
        /\ taskq = <<>> /\ outq = <<>>
        /\ \A f \in Discovered : started[f] = 1 /\ ConsumedFor(f) # {}
        /\ \A i \in DOMAIN status_dict : status_dict[i] = Idle
        /\ stop_event /\ upc = "exited"

\* the summary of a batch on MaxCores workers whose files were all stretched
C16_Witness ==
    /\ summary # <<>> /\ num_cores = MaxCores
    /\ Len(audio_files) = MaxFiles /\ modified_count = MaxFiles

\* C17: once the user has interrupted the drain loop no worker runs a job, and
\* when the run ends it has rendered the final summary with the counters of the
\* outcomes consumed before the interrupt.
C17_Cancellation ==
    interrupted =>
        /\ \A w \in Workers : ~InJob(w)
        /\ pc = "exit" =>
              summary = SummaryMessages(processed_count, modified_count,
                                        failed_count, analyze_only)

\* C18: the output of every processed file is complete at its own relative path
\* under the output root, in a directory that exists; two discovered files never
\* have the same output path, so two jobs in flight never write the same file;
\* and a job fails at the creation of its output directory only when the file
\* system refuses it, never because another job created the directory first.
C18_MirroredOutput ==
    /\ \A o \in Outcomes :
          /\ o.code = "PROCESSED" =>
                /\ out_files[RelativePath(o.file)] = "complete"
                /\ RelativePath(o.file)[1] \in out_dirs
          /\ (o.code = "UNHANDLED_ERROR" /\ env[o.file].slot = "ok") =>
                env[o.file].mkdir = "error"
    /\ \A f, g \in Discovered : f # g => RelativePath(f) # RelativePath(g)
    /\ pool = "running" =>
          \A v, w \in Workers :
              (v # w /\ wtask[v] # 0 /\ wtask[w] # 0) =>
                  RelativePath(FileOf(v)) # RelativePath(FileOf(w))

\* two workers write two output files into the same directory at the same time
C18_Witness ==
    /\ pool = "running" /\ num_cores > 1
    /\ wpc[1] = "l156" /\ wpc[2] = "l156"
    /\ RelativePath(FileOf(1))[1] = RelativePath(FileOf(2))[1]
    /\ RelativePath(FileOf(1))[1] \in out_dirs

\* C19: when a run that started the updater thread ends, stop_event has been
\* set and the updater thread has left its loop because of it.
C19_UpdaterAlwaysStopped ==
    (pc = "exit" /\ upc # "none") => (stop_event /\ upc = "exited")

\* C20: what detect_bpm returned to a job is None or a whole number >= 100; no
\* outcome is INVALID_BPM, and every failure outcome is BPM_DETECTION_FAILED,
\* STRETCH_FAILED or UNHANDLED_ERROR.
IsWhole(x) == x.k = "num" /\ x.n % x.d = 0
C20_DetectorPostcondition ==
    /\ pool = "running" =>
          \A w \in Workers :
              wpc[w] = "l170" =>
                  \/ wbpm[w] = None
                  \/ IsWhole(wbpm[w]) /\ ~FLt(wbpm[w], OctaveFloor)
    /\ \A o \in Outcomes :
          /\ o.code # "INVALID_BPM"
          /\ ~o.ok => o.code \in {"BPM_DETECTION_FAILED", "STRETCH_FAILED",
                                  "UNHANDLED_ERROR"}

\* detect_bpm returned 120.0 for a file whose estimate was 60.25 (doubled to
\* 120.5, rounded half to even), and for another file it returned None after
\* round(nan) raised
C20_Witness ==
    /\ pool = "running" /\ num_cores > 1
    /\ wpc[1] = "l170" /\ wbpm[1] = Num(120, 1) /\ env[FileOf(1)].est = Num(241, 4)
    /\ wpc[2] = "l170" /\ wbpm[2] = None /\ env[FileOf(2)].est = NaN

====
